---- MODULE Spec2Model ----
(***************************************************************************)
(* A model of the LFU cache of cache2go (src/lfu.go): the key map, the     *)
(* position map, the frequency buckets, minFrequency and size, with the    *)
(* public operations Add, Value, Delete, Flush, MostAccessed and the       *)
(* callback registration, each translated from its code.                   *)
(*                                                                         *)
(* A bucket is a container/list of keys.  A list element is modelled as a  *)
(* record [key, cur]: cur is TRUE for the one element keyToListElement[key]*)
(* points to.  Elements of a key that the position map no longer points    *)
(* to (left behind in a list) have cur = FALSE; they differ from each      *)
(* other only by their place in a list.  list.Remove(e) of container/list  *)
(* removes e only when e belongs to the list it is called on.              *)
(***************************************************************************)
EXTENDS Integers, Sequences, FiniteSets, TLC

\* ------------------------------------------------------------ bounds
MaxCapacity == 2      \* capacities 0..MaxCapacity
MaxCount == 2         \* access counters 0..MaxCount
MaxElems == 3         \* list elements, all lists together
MaxLoading == 1       \* loader calls running at the same time
MaxCallbacks == 2     \* callbacks in a queue
MaxN == 3             \* counts given to MostAccessed
MaxInstances == 3     \* caches made for the registry

Keys == {"A", "B", "C"}
Threads == {"t1", "t2"}
Names == {"n1", "n2"}
HookKeys == {"A", "B"}
Payload == [lifeSpan |-> 0, data |-> "d1"]
Payloads == {Payload, [lifeSpan |-> 1, data |-> "d2"]}
NoPayload == [lifeSpan |-> 0, data |-> "nil"]
NoKey == "none"

\* The nil *LFUCache.
NilCache == [name |-> "none", capacity |-> 0, id |-> 0]

VARIABLES
    capacity,          \* LFUCache.capacity
    size,              \* LFUCache.size
    items,             \* LFUCache.items: key -> CacheItem
    keyToListElement,  \* LFUCache.keyToListElement: key -> the list (frequency) holding its element
    frequencies,       \* LFUCache.frequencies: frequency -> list of elements, front first
    minFrequency,      \* LFUCache.minFrequency
    loadData,          \* LFUCache.loadData: TRUE when a data loader is configured
    addedItem,         \* LFUCache.addedItem: callbacks in registration order
    aboutToDeleteItem, \* LFUCache.aboutToDeleteItem: callbacks in registration order
    accessedOn,        \* the resident keys by CacheItem.accessedOn, latest first
    loading,           \* per key: the calls of Value waiting for the loader, the lock released
    calls,             \* the callback invocations of the last operation, in order
    last,              \* the last operation: its name, arguments and results
    RWMutex,           \* LFUCache.RWMutex: the threads holding it, writing and reading
    pc,                \* per thread: the place it is at in the operation it runs
    mutex,             \* the mutex of the registry (cache.go)
    lfuCaches,         \* the registry: name -> *LFUCache
    calling,           \* per thread: the place it is at in LFUCache(name, capacity)
    constructed,       \* the caches NewLFUCache made for the registry, in order
    returned           \* what the calls of LFUCache(name, capacity) returned

\* The lock of the cache and the threads stepping through its operations.
threads == <<RWMutex, pc>>

\* The registry of the caches.
registry == <<mutex, lfuCaches, calling, constructed, returned>>

\* The cache and the record of its last operation.
cacheVars == <<capacity, size, items, keyToListElement, frequencies, minFrequency,
          loadData, addedItem, aboutToDeleteItem, accessedOn, loading, calls, last>>

vars == <<capacity, size, items, keyToListElement, frequencies, minFrequency,
          loadData, addedItem, aboutToDeleteItem, accessedOn, loading, calls, last,
          RWMutex, pc, mutex, lfuCaches, calling, constructed, returned>>

\* ------------------------------------------------------------ CacheItem
\* The nil *CacheItem.
NilItem == [key |-> NoKey, lifeSpan |-> 0, data |-> "nil", accessCount |-> 0]

\* NewCacheItem: cacheitem.go is not among the sources.  The counter of a new
\* item is 0: TestLFUEviction and TestLFUMostAccessed (src/lfu_test.go) hold
\* only if updateFrequency, which reads the counter after the increment, finds
\* a once-touched item in the frequency-1 list.
NewCacheItem(key, lifeSpan, data) ==
    [key |-> key, lifeSpan |-> lifeSpan, data |-> data, accessCount |-> 0]

\* CacheItem.KeepAlive: refreshes accessedOn and counts the access.
KeepAlive(item) == [item EXCEPT !.accessCount = @ + 1]

\* CacheItem.AccessCount
AccessCount(item) == item.accessCount

\* ------------------------------------------------------------ container/list
Element(key) == [key |-> key, cur |-> TRUE]

\* list.PushFront
PushFront(l, key) == <<Element(key)>> \o l

\* list.Remove(element), element being the one the position map holds for key:
\* removes it if it is in l, and does nothing if it is in another list.
ListRemove(l, key) == SelectSeq(l, LAMBDA e : ~(e.key = key /\ e.cur))

\* list.Back
Back(l) == l[Len(l)]

\* The position map stops pointing to the element it held for key.
Unmark(freqs, key) ==
    [f \in DOMAIN freqs |->
        [i \in 1..Len(freqs[f]) |->
            IF freqs[f][i].key = key THEN [freqs[f][i] EXCEPT !.cur = FALSE]
            ELSE freqs[f][i]]]

Min(a, b) == IF a <= b THEN a ELSE b

\* delete(m, key) of a Go map
MapDelete(m, key) == [k \in (DOMAIN m) \ {key} |-> m[k]]

\* m[key] = v of a Go map
MapSet(m, key, v) == [k \in (DOMAIN m) \cup {key} |-> IF k = key THEN v ELSE m[k]]

\* ------------------------------------------------------------ sync.RWMutex
\* A mutex nobody holds.
Unlocked == [writer |-> {}, readers |-> {}]

\* Lock and RLock wait until the mutex can be taken.
CanLock(m) == m = Unlocked

CanRLock(m) == m.writer = {}

Lock(m, t) == [m EXCEPT !.writer = {t}]

\* Unlock that leaves the mutex as it is.
StillLocked(m, t) == m

Unlock(m, t) == [m EXCEPT !.writer = {}]

RLock(m, t) == [m EXCEPT !.readers = @ \cup {t}]

RUnlock(m, t) == [m EXCEPT !.readers = @ \ {t}]

\* ------------------------------------------------------------ LFUCache
\* The cache as one record, for the operators below; victim is filled in by
\* evictLFU with the key it took from the list.
Cache ==
    [capacity |-> capacity, size |-> size, items |-> items,
     keyToListElement |-> keyToListElement, frequencies |-> frequencies,
     minFrequency |-> minFrequency, loadData |-> loadData,
     addedItem |-> addedItem, aboutToDeleteItem |-> aboutToDeleteItem,
     accessedOn |-> accessedOn, calls |-> <<>>, victim |-> NoKey]

\* NewLFUCache
NewLFUCache(cap) ==
    [capacity |-> cap, size |-> 0, items |-> <<>>, keyToListElement |-> <<>>,
     frequencies |-> <<>>, minFrequency |-> 0, loadData |-> FALSE,
     addedItem |-> <<>>, aboutToDeleteItem |-> <<>>,
     accessedOn |-> <<>>, calls |-> <<>>, victim |-> NoKey]

Exists(c, key) == key \in DOMAIN c.items

Count(c) == c.size

Capacity(c) == c.capacity

\* The lookup cache.items[key] of a key that may be absent.
ItemOf(c, key) == IF key \in DOMAIN c.items THEN c.items[key] ELSE NilItem

\* accessedOn = time.Now() for key
Touched(order, key) == <<key>> \o SelectSeq(order, LAMBDA k : k # key)

Forgotten(order, key) == SelectSeq(order, LAMBDA k : k # key)

\* for _, callback := range callbacks { callback(item) }: one record per call,
\* with what the callback can observe of key at that moment.
Invoke(c, callbacks, kind, key, item) ==
    [c EXCEPT !.calls = @ \o
        [i \in 1..Len(callbacks) |->
            [cb |-> callbacks[i], kind |-> kind, key |-> key, item |-> item,
             exists |-> Exists(c, key),
             listed |-> /\ 1 \in DOMAIN c.frequencies
                        /\ Len(c.frequencies[1]) > 0
                        /\ c.frequencies[1][1] = Element(key)]]]

\* The new element of key is pushed to the front of the list of freq, and the
\* position map points to it.
PushKey(c, key, freq) ==
    [c EXCEPT !.frequencies = [Unmark(@, key) EXCEPT ![freq] = PushFront(@, key)],
              !.keyToListElement = MapSet(@, key, freq)]

\* if _, exists := cache.frequencies[freq]; !exists { ... list.New() }
EnsureNode(c, freq) ==
    IF freq \in DOMAIN c.frequencies THEN c
    ELSE [c EXCEPT !.frequencies = MapSet(@, freq, <<>>)]

\* delete(cache.items, key); delete(cache.keyToListElement, key); cache.size--
RemoveFromCache(c, key) ==
    [c EXCEPT !.items = MapDelete(@, key),
              !.keyToListElement = MapDelete(@, key),
              !.frequencies = Unmark(@, key),
              !.accessedOn = Forgotten(@, key),
              !.size = @ - 1]

\* updateFrequency taking a list that it has emptied out of the frequency map.
updateFrequencyDropping(c, key) ==
    LET item == c.items[key]
        oldFreq == AccessCount(item)
        newFreq == oldFreq + 1
        exists == oldFreq \in DOMAIN c.frequencies
        removed == IF exists
                   THEN [c EXCEPT !.frequencies[oldFreq] = ListRemove(@, key)]
                   ELSE c
        bumped == IF exists /\ Len(removed.frequencies[oldFreq]) = 0
                            /\ oldFreq = c.minFrequency
                  THEN [removed EXCEPT !.minFrequency = @ + 1]
                  ELSE removed
        dropped == IF exists /\ Len(removed.frequencies[oldFreq]) = 0
                   THEN [bumped EXCEPT !.frequencies = MapDelete(@, oldFreq)]
                   ELSE bumped
    IN  PushKey(EnsureNode(dropped, newFreq), key, newFreq)

updateFrequency(c, key) ==
    LET item == c.items[key]
        oldFreq == AccessCount(item)
        newFreq == oldFreq + 1
        exists == oldFreq \in DOMAIN c.frequencies
        removed == IF exists
                   THEN [c EXCEPT !.frequencies[oldFreq] = ListRemove(@, key)]
                   ELSE c
        bumped == IF exists /\ Len(removed.frequencies[oldFreq]) = 0
                            /\ oldFreq = c.minFrequency
                  THEN [removed EXCEPT !.minFrequency = @ + 1]
                  ELSE removed
    IN  PushKey(EnsureNode(bumped, newFreq), key, newFreq)

evictLFU(c) ==
    IF c.size = 0 THEN c
    ELSE IF \/ c.minFrequency \notin DOMAIN c.frequencies
            \/ Len(c.frequencies[c.minFrequency]) = 0 THEN c
    ELSE LET minNode == c.frequencies[c.minFrequency]
             key == Back(minNode).key
             removed == [c EXCEPT !.frequencies[c.minFrequency] =
                                      SubSeq(minNode, 1, Len(minNode) - 1),
                                  !.victim = key]
             item == ItemOf(removed, key)
             called == Invoke(removed, removed.aboutToDeleteItem, "aboutToDelete", key, item)
         IN  RemoveFromCache(called, key)

\* What an operation hands back: the cache after it, the item and the error.
Result(c, ret, err) == [c |-> c, ret |-> ret, err |-> err]

\* InsertItem evicting only above capacity.
InsertItemLate(c, key, item) ==
    LET evicted == IF c.size > c.capacity THEN evictLFU(c) ELSE c
        stored == [evicted EXCEPT !.items = MapSet(@, key, item),
                                  !.accessedOn = Touched(@, key),
                                  !.size = @ + 1]
        pushed == PushKey(EnsureNode(stored, 1), key, 1)
    IN  [pushed EXCEPT !.minFrequency = 1]

\* The insert of a new item, shared by Add and by the loader branch of Value:
\* evict if at capacity, cache.items[key] = item, cache.size++, push to the
\* front of the frequency-1 list, minFrequency = 1.
InsertItem(c, key, item) ==
    LET evicted == IF c.size >= c.capacity THEN evictLFU(c) ELSE c
        stored == [evicted EXCEPT !.items = MapSet(@, key, item),
                                  !.accessedOn = Touched(@, key),
                                  !.size = @ + 1]
        pushed == PushKey(EnsureNode(stored, 1), key, 1)
    IN  [pushed EXCEPT !.minFrequency = 1]

\* Add whose update of a resident key leaves out accessCount++.
AddWithoutCount(c, key, lifeSpan, data) ==
    IF key \in DOMAIN c.items
    THEN LET existingItem == [c.items[key] EXCEPT !.data = data,
                                                  !.lifeSpan = lifeSpan]
             updated == [c EXCEPT !.items[key] = existingItem,
                                  !.accessedOn = Touched(@, key)]
         IN  Result(updateFrequency(updated, key), existingItem, "nil")
    ELSE LET item == NewCacheItem(key, lifeSpan, data)
             inserted == InsertItem(c, key, item)
         IN  Result(Invoke(inserted, inserted.addedItem, "added", key, item), item, "nil")

\* Add whose update of a resident key keeps the data the item had.
AddKeepsData(c, key, lifeSpan, data) ==
    IF key \in DOMAIN c.items
    THEN LET existingItem == [c.items[key] EXCEPT !.lifeSpan = lifeSpan,
                                                  !.accessCount = @ + 1]
             updated == [c EXCEPT !.items[key] = existingItem,
                                  !.accessedOn = Touched(@, key)]
         IN  Result(updateFrequency(updated, key), existingItem, "nil")
    ELSE LET item == NewCacheItem(key, lifeSpan, data)
             inserted == InsertItem(c, key, item)
         IN  Result(Invoke(inserted, inserted.addedItem, "added", key, item), item, "nil")

Add(c, key, lifeSpan, data) ==
    IF key \in DOMAIN c.items
    THEN LET existingItem == [c.items[key] EXCEPT !.data = data,
                                                  !.lifeSpan = lifeSpan,
                                                  !.accessCount = @ + 1]
             updated == [c EXCEPT !.items[key] = existingItem,
                                  !.accessedOn = Touched(@, key)]
         IN  Result(updateFrequency(updated, key), existingItem, "nil")
    ELSE LET item == NewCacheItem(key, lifeSpan, data)
             inserted == InsertItem(c, key, item)
         IN  Result(Invoke(inserted, inserted.addedItem, "added", key, item), item, "nil")

\* Value up to the call of the loader: a hit, a miss without a loader, or a miss
\* that releases the lock and calls the loader (err "loading": no return yet).
Value(c, key) ==
    IF key \in DOMAIN c.items
    THEN LET item == KeepAlive(c.items[key])
             alive == [c EXCEPT !.items[key] = item,
                                !.accessedOn = Touched(@, key)]
         IN  Result(updateFrequency(alive, key), item, "nil")
    ELSE IF c.loadData
    THEN Result(c, NilItem, "loading")
    ELSE Result(c, NilItem, "ErrKeyNotFound")

\* ValueLoaded looking the key up again before it inserts what the loader
\* returned.
ValueLoadedChecked(c, key, item) ==
    IF item = NilItem THEN Result(c, NilItem, "ErrKeyNotFoundOrLoadable")
    ELSE IF key \in DOMAIN c.items THEN Result(c, c.items[key], "nil")
    ELSE Result(InsertItem(c, key, item), item, "nil")

\* Value from the return of the loader, the lock taken again: item is what the
\* loader returned.
ValueLoaded(c, key, item) ==
    IF item # NilItem
    THEN Result(InsertItem(c, key, item), item, "nil")
    ELSE Result(c, NilItem, "ErrKeyNotFoundOrLoadable")

\* Delete counting the key down before it looks it up.
DeleteUnchecked(c, key) ==
    IF key \notin DOMAIN c.items
    THEN Result([c EXCEPT !.size = @ - 1], NilItem, "ErrKeyNotFound")
    ELSE LET item == c.items[key]
             called == Invoke(c, c.aboutToDeleteItem, "aboutToDelete", key, item)
         IN  Result(RemoveFromCache(called, key), item, "nil")

Delete(c, key) ==
    IF key \notin DOMAIN c.items
    THEN Result(c, NilItem, "ErrKeyNotFound")
    ELSE LET item == c.items[key]
             freq == AccessCount(item)
             exists == freq \in DOMAIN c.frequencies
             removed == IF exists
                        THEN [c EXCEPT !.frequencies[freq] = ListRemove(@, key)]
                        ELSE c
             bumped == IF exists /\ Len(removed.frequencies[freq]) = 0
                                 /\ freq = c.minFrequency
                       THEN [removed EXCEPT !.minFrequency = @ + 1]
                       ELSE removed
             called == Invoke(bumped, bumped.aboutToDeleteItem, "aboutToDelete", key, item)
         IN  Result(RemoveFromCache(called, key), item, "nil")

\* order: the keys of cache.items in the order the range over the map yields them.
RECURSIVE FlushCalls(_, _)
FlushCalls(c, order) ==
    IF order = <<>> THEN c
    ELSE FlushCalls(Invoke(c, c.aboutToDeleteItem, "aboutToDelete",
                           Head(order), c.items[Head(order)]),
                    Tail(order))

\* Flush calling the callbacks for the first item of the range only.
FlushFirstOnly(c, order) ==
    [FlushCalls(c, SubSeq(order, 1, Min(1, Len(order)))) EXCEPT
                                 !.items = <<>>,
                                 !.keyToListElement = <<>>,
                                 !.frequencies = <<>>,
                                 !.accessedOn = <<>>,
                                 !.size = 0,
                                 !.minFrequency = 0]

Flush(c, order) ==
    [FlushCalls(c, order) EXCEPT !.items = <<>>,
                                 !.keyToListElement = <<>>,
                                 !.frequencies = <<>>,
                                 !.accessedOn = <<>>,
                                 !.size = 0,
                                 !.minFrequency = 0]

\* The items of the list of freq, front to back, that are in cache.items.
NodeItems(c, freq) ==
    IF freq \in DOMAIN c.frequencies
    THEN LET present == SelectSeq(c.frequencies[freq], LAMBDA e : e.key \in DOMAIN c.items)
         IN  [i \in 1..Len(present) |-> c.items[present[i].key]]
    ELSE <<>>

RECURSIVE Collect(_, _)
Collect(c, freq) ==
    IF freq <= 0 THEN <<>> ELSE NodeItems(c, freq) \o Collect(c, freq - 1)

MostAccessed(c, count) ==
    LET all == Collect(c, Cardinality(DOMAIN c.frequencies))
    IN  IF count <= 0 THEN <<>>
        ELSE IF count >= Len(all) THEN all
        ELSE SubSeq(all, 1, count)

\* A callback is named by its place in its queue: a queue is <<>>, <<1>>, <<1, 2>>.
NewCallback(callbacks) == Len(callbacks) + 1

\* Set...Callback: empties a non-empty queue, then appends f.
SetCallback(callbacks, f) == Append(IF Len(callbacks) > 0 THEN <<>> ELSE callbacks, f)

\* Add...Callback
AddCallback(callbacks, f) == Append(callbacks, f)

\* ------------------------------------------------------------ the state machine
\* The record of an operation: p is the lifeSpan and data given to Add, n is
\* the count given to MostAccessed and list its result; loaded is what the loader returned to Value; full tells whether
\* an insert found size >= capacity; victim is the key evictLFU took.
Op(name, key, r, full) ==
    [op |-> name, key |-> key, err |-> r.err, ret |-> r.ret, loaded |-> NilItem,
     victim |-> r.c.victim, full |-> full, n |-> 0, list |-> <<>>, p |-> NoPayload]

NoOp == [op |-> "New", key |-> NoKey, err |-> "nil", ret |-> NilItem, loaded |-> NilItem,
         victim |-> NoKey, full |-> FALSE, n |-> 0, list |-> <<>>, p |-> NoPayload]

\* A thread that runs no operation of the cache.
Idle == [at |-> "idle", op |-> "none", key |-> NoKey, item |-> NilItem]

\* A thread that is not in LFUCache(name, capacity).
NotCalling == [at |-> "idle", name |-> "none", capacity |-> 0, ok |-> FALSE, c |-> NilCache]

\* The number of list elements of all the lists.
RECURSIVE Elems(_, _)
Elems(freqs, fs) ==
    IF fs = {} THEN 0
    ELSE LET f == CHOOSE x \in fs : TRUE
         IN  Len(freqs[f]) + Elems(freqs, fs \ {f})

\* The bounds of the model: counters up to MaxCount, MaxElems list elements.
Bounded(c) ==
    /\ \A k \in DOMAIN c.items : c.items[k].accessCount <= MaxCount
    /\ Elems(c.frequencies, DOMAIN c.frequencies) <= MaxElems

RECURSIVE Sum(_, _)
Sum(f, S) ==
    IF S = {} THEN 0
    ELSE LET x == CHOOSE y \in S : TRUE IN f[x] + Sum(f, S \ {x})

\* The loader calls that are running.
InFlight == Sum(loading, Keys)

\* The orders a range over a map with the keys S can take.
Orders(S) ==
    {o \in [1..Cardinality(S) -> S] : \A i, j \in DOMAIN o : i # j => o[i] # o[j]}

Store(c) ==
    /\ capacity' = c.capacity
    /\ size' = c.size
    /\ items' = c.items
    /\ keyToListElement' = c.keyToListElement
    /\ frequencies' = c.frequencies
    /\ minFrequency' = c.minFrequency
    /\ loadData' = c.loadData
    /\ addedItem' = c.addedItem
    /\ aboutToDeleteItem' = c.aboutToDeleteItem
    /\ accessedOn' = c.accessedOn
    /\ calls' = c.calls

\* A cache just made by NewLFUCache(name, cap), cap one of caps.
InitWith(caps) ==
    /\ \E cap \in caps :
          LET c == NewLFUCache(cap)
          IN  /\ capacity = c.capacity
              /\ size = c.size
              /\ items = c.items
              /\ keyToListElement = c.keyToListElement
              /\ frequencies = c.frequencies
              /\ minFrequency = c.minFrequency
              /\ loadData = c.loadData
              /\ addedItem = c.addedItem
              /\ aboutToDeleteItem = c.aboutToDeleteItem
              /\ accessedOn = c.accessedOn
              /\ calls = c.calls
    /\ loading = [k \in Keys |-> 0]
    /\ last = NoOp
    /\ RWMutex = Unlocked
    /\ pc = [t \in Threads |-> Idle]
    /\ mutex = Unlocked
    /\ lfuCaches = <<>>
    /\ calling = [t \in Threads |-> NotCalling]
    /\ constructed = <<>>
    /\ returned = {}

CallAdd(key, p) ==
    /\ LET r == Add(Cache, key, p.lifeSpan, p.data)
       IN  /\ Bounded(r.c)
           /\ Store(r.c)
           /\ last' = [Op("Add", key, r, key \notin DOMAIN items /\ size >= capacity)
                          EXCEPT !.p = p]
    /\ UNCHANGED <<loading, threads, registry>>

\* Value(key) up to its return or, on a miss with a loader, up to the call of
\* the loader, where it releases the lock.
CallValue(key) ==
    LET r == Value(Cache, key)
    IN  /\ Bounded(r.c)
        /\ r.err = "loading" => InFlight < MaxLoading
        /\ Store(r.c)
        /\ last' = Op("Value", key, r, FALSE)
        /\ loading' = IF r.err = "loading" THEN [loading EXCEPT ![key] = @ + 1]
                      ELSE loading
        /\ UNCHANGED <<threads, registry>>

\* The loader called by a Value(key) returns item; Value takes the lock again
\* and goes on to its end.
LoaderReturns(key, item) ==
    /\ loading[key] > 0
    /\ LET r == ValueLoaded(Cache, key, item)
       IN  /\ Bounded(r.c)
           /\ Store(r.c)
           /\ last' = [Op("ValueLoaded", key, r, item # NilItem /\ size >= capacity)
                          EXCEPT !.loaded = item]
    /\ loading' = [loading EXCEPT ![key] = @ - 1]
    /\ UNCHANGED <<threads, registry>>

CallDelete(key) ==
    /\ LET r == Delete(Cache, key)
       IN  /\ Store(r.c)
           /\ last' = Op("Delete", key, r, FALSE)
    /\ UNCHANGED <<loading, threads, registry>>

CallFlush(order) ==
    /\ LET r == Result(Flush(Cache, order), NilItem, "nil")
       IN  /\ Store(r.c)
           /\ last' = Op("Flush", NoKey, r, FALSE)
    /\ UNCHANGED <<loading, threads, registry>>

CallMostAccessed(count) ==
    /\ Store(Cache)
    /\ last' = [Op("MostAccessed", NoKey, Result(Cache, NilItem, "nil"), FALSE)
                   EXCEPT !.n = count, !.list = MostAccessed(Cache, count)]
    /\ UNCHANGED <<loading, threads, registry>>

\* SetDataLoader(f), f a loader (TRUE) or nil (FALSE)
SetDataLoader(f) ==
    /\ Store([Cache EXCEPT !.loadData = f])
    /\ last' = [NoOp EXCEPT !.op = "SetDataLoader"]
    /\ UNCHANGED <<loading, threads, registry>>

SetAddedItemCallback(f) ==
    /\ f = NewCallback(<<>>)
    /\ Store([Cache EXCEPT !.addedItem = SetCallback(@, f)])
    /\ last' = [NoOp EXCEPT !.op = "Callbacks"]
    /\ UNCHANGED <<loading, threads, registry>>

AddAddedItemCallback(f) ==
    /\ Len(addedItem) < MaxCallbacks
    /\ f = NewCallback(addedItem)
    /\ Store([Cache EXCEPT !.addedItem = AddCallback(@, f)])
    /\ last' = [NoOp EXCEPT !.op = "Callbacks"]
    /\ UNCHANGED <<loading, threads, registry>>

RemoveAddedItemCallbacks ==
    /\ Store([Cache EXCEPT !.addedItem = <<>>])
    /\ last' = [NoOp EXCEPT !.op = "Callbacks"]
    /\ UNCHANGED <<loading, threads, registry>>

SetAboutToDeleteItemCallback(f) ==
    /\ f = NewCallback(<<>>)
    /\ Store([Cache EXCEPT !.aboutToDeleteItem = SetCallback(@, f)])
    /\ last' = [NoOp EXCEPT !.op = "Callbacks"]
    /\ UNCHANGED <<loading, threads, registry>>

AddAboutToDeleteItemCallback(f) ==
    /\ Len(aboutToDeleteItem) < MaxCallbacks
    /\ f = NewCallback(aboutToDeleteItem)
    /\ Store([Cache EXCEPT !.aboutToDeleteItem = AddCallback(@, f)])
    /\ last' = [NoOp EXCEPT !.op = "Callbacks"]
    /\ UNCHANGED <<loading, threads, registry>>

RemoveAboutToDeleteItemCallback ==
    /\ Store([Cache EXCEPT !.aboutToDeleteItem = <<>>])
    /\ last' = [NoOp EXCEPT !.op = "Callbacks"]
    /\ UNCHANGED <<loading, threads, registry>>

\* The cache without callbacks: every operation on the items, by any number of
\* threads, each operation under the lock from its start to its end but for
\* the loader call of Value.
Init == InitWith(0..MaxCapacity)

Next ==
    \/ \E key \in Keys : CallAdd(key, Payload)
    \/ \E key \in Keys : CallValue(key)
    \/ \E key \in Keys : \E item \in {NilItem, NewCacheItem(key, 0, "d1")} :
          LoaderReturns(key, item)
    \/ \E key \in Keys : CallDelete(key)
    \/ \E order \in Orders(DOMAIN items) : CallFlush(order)
    \/ \E f \in BOOLEAN : SetDataLoader(f)

Spec == Init /\ [][Next]_vars

\* The cache with callbacks, over the keys HookKeys and the capacities 0 and 1.
InitHooks == InitWith(0..MaxCapacity - 1)

NextHooks ==
    \/ \E key \in HookKeys : CallAdd(key, Payload)
    \/ \E key \in HookKeys : CallValue(key)
    \/ \E key \in HookKeys : \E item \in {NilItem, NewCacheItem(key, 0, "d1")} :
          LoaderReturns(key, item)
    \/ \E key \in HookKeys : CallDelete(key)
    \/ \E order \in Orders(DOMAIN items) : CallFlush(order)
    \/ \E f \in BOOLEAN : SetDataLoader(f)
    \/ \E f \in 1..MaxCallbacks : SetAddedItemCallback(f)
    \/ \E f \in 1..MaxCallbacks : AddAddedItemCallback(f)
    \/ RemoveAddedItemCallbacks
    \/ \E f \in 1..MaxCallbacks : SetAboutToDeleteItemCallback(f)
    \/ \E f \in 1..MaxCallbacks : AddAboutToDeleteItemCallback(f)
    \/ RemoveAboutToDeleteItemCallback

SpecHooks == InitHooks /\ [][NextHooks]_vars

\* The cache read by MostAccessed: no loader, no callbacks, up to
\* MaxCapacity + 1 items.
InitMost == InitWith(1..MaxCapacity + 1)

NextMost ==
    \/ \E key \in Keys : CallAdd(key, Payload)
    \/ \E key \in Keys : CallValue(key)
    \/ \E key \in Keys : CallDelete(key)
    \/ \E order \in Orders(DOMAIN items) : CallFlush(order)
    \/ \E count \in 0..MaxN : CallMostAccessed(count)

SpecMost == InitMost /\ [][NextMost]_vars

\* The cache updated by Add: two payloads, the added-item callbacks, the keys
\* HookKeys and the capacities 1..MaxCapacity.
InitUpdate == InitWith(1..MaxCapacity)

NextUpdate ==
    \/ \E key \in HookKeys : \E p \in Payloads : CallAdd(key, p)
    \/ \E key \in HookKeys : CallValue(key)
    \/ \E key \in HookKeys : \E item \in {NilItem, NewCacheItem(key, 0, "d1")} :
          LoaderReturns(key, item)
    \/ \E key \in HookKeys : CallDelete(key)
    \/ \E order \in Orders(DOMAIN items) : CallFlush(order)
    \/ \E f \in BOOLEAN : SetDataLoader(f)
    \/ \E f \in 1..MaxCallbacks : SetAddedItemCallback(f)
    \/ RemoveAddedItemCallbacks

SpecUpdate == InitUpdate /\ [][NextUpdate]_vars

\* ------------------------------------------------------------ the lock
\* The operations step by step: cache.Lock(), the code under the lock, the
\* deferred cache.Unlock(); Value releases the lock for the call of its loader
\* and takes it again.  Count stands for the operations under RLock.
LockedOps == {"Add", "Value", "Delete", "Flush", "SetDataLoader"}

\* The code of op under the lock, up to its return or to the call of the loader.
Run(c, op, key, order) ==
    CASE op = "Add" -> Add(c, key, Payload.lifeSpan, Payload.data)
      [] op = "Value" -> Value(c, key)
      [] op = "Delete" -> Delete(c, key)
      [] op = "Flush" -> Result(Flush(c, order), NilItem, "nil")
      [] op = "SetDataLoader" -> Result([c EXCEPT !.loadData = TRUE], NilItem, "nil")

\* cache.Lock() at the start of op(key) by thread t.
Enter(t, op, key) ==
    /\ pc[t] = Idle
    /\ CanLock(RWMutex)
    /\ (op \in {"Flush", "SetDataLoader"}) = (key = NoKey)
    /\ \A order \in Orders(DOMAIN items) :
          LET r == Run(Cache, op, key, order)
          IN  /\ Bounded(r.c)
              /\ r.err = "loading" => InFlight < MaxLoading
    /\ RWMutex' = Lock(RWMutex, t)
    /\ pc' = [pc EXCEPT ![t] = [Idle EXCEPT !.at = "locked", !.op = op, !.key = key]]
    /\ UNCHANGED <<cacheVars, registry>>

\* The code of the operation of thread t under the lock.  A Value that misses
\* with a loader releases the lock and calls the loader.
Body(t) ==
    /\ pc[t].at = "locked"
    /\ \E order \in Orders(DOMAIN items) :
          LET r == Run(Cache, pc[t].op, pc[t].key, order)
          IN  /\ Store(r.c)
              /\ last' = Op(pc[t].op, pc[t].key, r,
                            /\ pc[t].op = "Add"
                            /\ pc[t].key \notin DOMAIN items
                            /\ size >= capacity)
              /\ IF r.err = "loading"
                 THEN /\ RWMutex' = Unlock(RWMutex, t)
                      /\ pc' = [pc EXCEPT ![t].at = "loader"]
                      /\ loading' = [loading EXCEPT ![pc[t].key] = @ + 1]
                 ELSE /\ pc' = [pc EXCEPT ![t].at = "return"]
                      /\ UNCHANGED <<RWMutex, loading>>
    /\ UNCHANGED registry

\* The loader of thread t has returned item, and cache.Lock() is passed.
Relock(t, item) ==
    /\ pc[t].at = "loader"
    /\ CanLock(RWMutex)
    /\ Bounded(ValueLoaded(Cache, pc[t].key, item).c)
    /\ RWMutex' = Lock(RWMutex, t)
    /\ pc' = [pc EXCEPT ![t].at = "loaded", ![t].item = item]
    /\ UNCHANGED <<cacheVars, registry>>

\* Value of thread t from the second cache.Lock() to its return.
InsertLoaded(t) ==
    /\ pc[t].at = "loaded"
    /\ LET r == ValueLoaded(Cache, pc[t].key, pc[t].item)
       IN  /\ Store(r.c)
           /\ last' = [Op("ValueLoaded", pc[t].key, r,
                          pc[t].item # NilItem /\ size >= capacity)
                          EXCEPT !.loaded = pc[t].item]
    /\ loading' = [loading EXCEPT ![pc[t].key] = @ - 1]
    /\ pc' = [pc EXCEPT ![t].at = "return"]
    /\ UNCHANGED <<RWMutex, registry>>

\* The deferred cache.Unlock() of thread t.  Unlock of a mutex that is not
\* locked for writing is a fatal error of the Go runtime.
Leave(t) ==
    /\ pc[t].at = "return"
    /\ IF RWMutex.writer = {}
       THEN /\ pc' = [pc EXCEPT ![t].at = "fatal"]
            /\ UNCHANGED RWMutex
       ELSE /\ RWMutex' = Unlock(RWMutex, t)
            /\ pc' = [pc EXCEPT ![t] = Idle]
    /\ UNCHANGED <<cacheVars, registry>>

\* Count() by thread t: cache.RLock().
EnterCount(t) ==
    /\ pc[t] = Idle
    /\ CanRLock(RWMutex)
    /\ RWMutex' = RLock(RWMutex, t)
    /\ pc' = [pc EXCEPT ![t] = [Idle EXCEPT !.at = "rlocked", !.op = "Count"]]
    /\ UNCHANGED <<cacheVars, registry>>

\* Count() by thread t: return cache.size and the deferred cache.RUnlock().
LeaveCount(t) ==
    /\ pc[t].at = "rlocked"
    /\ RWMutex' = RUnlock(RWMutex, t)
    /\ pc' = [pc EXCEPT ![t] = Idle]
    /\ Store(Cache)
    /\ last' = [NoOp EXCEPT !.op = "Count", !.n = Count(Cache)]
    /\ UNCHANGED <<loading, registry>>

\* Two threads on a cache of the keys HookKeys, capacities 1..MaxCapacity.
InitLock == InitWith(1..MaxCapacity)

NextLock ==
    \/ \E t \in Threads : \E op \in LockedOps : \E key \in HookKeys \cup {NoKey} :
          Enter(t, op, key)
    \/ \E t \in Threads : Body(t)
    \/ \E t \in Threads : \E item \in {NilItem, NewCacheItem(pc[t].key, 0, "d1")} :
          Relock(t, item)
    \/ \E t \in Threads : InsertLoaded(t)
    \/ \E t \in Threads : Leave(t)
    \/ \E t \in Threads : EnterCount(t)
    \/ \E t \in Threads : LeaveCount(t)

SpecLock == InitLock /\ [][NextLock]_vars

\* ------------------------------------------------------------ the registry
\* c, ok := lfuCaches[name]
Lookup(caches, name) ==
    IF name \in DOMAIN caches THEN [c |-> caches[name], ok |-> TRUE]
    ELSE [c |-> NilCache, ok |-> FALSE]

\* The second lookup that finds nothing, whatever the registry holds.
NoDoubleCheck(caches, name) == [c |-> NilCache, ok |-> FALSE]

\* c, ok = lfuCaches[name] under the write lock.
DoubleCheck(caches, name) == Lookup(caches, name)

\* The cache NewLFUCache(name, capacity) makes, id telling it from the caches
\* made before.
NewInstance(name, cap) ==
    [name |-> name, capacity |-> Capacity(NewLFUCache(cap)), id |-> Len(constructed) + 1]

\* LFUCache(name, cap) by thread t: mutex.RLock()
RegistryRLock(t, name, cap) ==
    /\ calling[t] = NotCalling
    /\ CanRLock(mutex)
    /\ mutex' = RLock(mutex, t)
    /\ calling' = [calling EXCEPT ![t] = [NotCalling EXCEPT !.at = "rlocked",
                                                            !.name = name,
                                                            !.capacity = cap]]
    /\ UNCHANGED <<lfuCaches, constructed, returned, cacheVars, threads>>

\* c, ok := lfuCaches[name]; mutex.RUnlock()
RegistryRead(t) ==
    /\ calling[t].at = "rlocked"
    /\ LET found == Lookup(lfuCaches, calling[t].name)
       IN  calling' = [calling EXCEPT ![t].at = "checked",
                                      ![t].ok = found.ok,
                                      ![t].c = found.c]
    /\ mutex' = RUnlock(mutex, t)
    /\ UNCHANGED <<lfuCaches, constructed, returned, cacheVars, threads>>

\* if !ok { mutex.Lock()
RegistryLock(t) ==
    /\ calling[t].at = "checked"
    /\ ~calling[t].ok
    /\ CanLock(mutex)
    /\ mutex' = Lock(mutex, t)
    /\ calling' = [calling EXCEPT ![t].at = "wlocked"]
    /\ UNCHANGED <<lfuCaches, constructed, returned, cacheVars, threads>>

\* c, ok = lfuCaches[name]; if !ok { c = NewLFUCache(name, capacity);
\* lfuCaches[name] = c }
RegistryCreate(t) ==
    /\ calling[t].at = "wlocked"
    /\ LET found == DoubleCheck(lfuCaches, calling[t].name)
           c == NewInstance(calling[t].name, calling[t].capacity)
       IN  IF found.ok
           THEN /\ calling' = [calling EXCEPT ![t].at = "unlock",
                                               ![t].ok = TRUE,
                                               ![t].c = found.c]
                /\ UNCHANGED <<lfuCaches, constructed>>
           ELSE /\ Len(constructed) < MaxInstances
                /\ calling' = [calling EXCEPT ![t].at = "unlock", ![t].c = c]
                /\ lfuCaches' = MapSet(lfuCaches, calling[t].name, c)
                /\ constructed' = Append(constructed, c)
    /\ UNCHANGED <<mutex, returned, cacheVars, threads>>

\* mutex.Unlock() }
RegistryUnlock(t) ==
    /\ calling[t].at = "unlock"
    /\ mutex' = Unlock(mutex, t)
    /\ calling' = [calling EXCEPT ![t].at = "return"]
    /\ UNCHANGED <<lfuCaches, constructed, returned, cacheVars, threads>>

\* return c
RegistryReturn(t) ==
    /\ \/ calling[t].at = "return"
       \/ calling[t].at = "checked" /\ calling[t].ok
    /\ returned' = returned \cup {[name |-> calling[t].name,
                                    capacity |-> calling[t].capacity,
                                    c |-> calling[t].c]}
    /\ calling' = [calling EXCEPT ![t] = NotCalling]
    /\ UNCHANGED <<mutex, lfuCaches, constructed, cacheVars, threads>>

\* The threads calling LFUCache(name, capacity) with the names Names and the
\* capacities 1..MaxCapacity.
InitRegistry == InitWith({0})

NextRegistry ==
    \/ \E t \in Threads : \E name \in Names : \E cap \in 1..MaxCapacity :
          RegistryRLock(t, name, cap)
    \/ \E t \in Threads : RegistryRead(t)
    \/ \E t \in Threads : RegistryLock(t)
    \/ \E t \in Threads : RegistryCreate(t)
    \/ \E t \in Threads : RegistryUnlock(t)
    \/ \E t \in Threads : RegistryReturn(t)

SpecRegistry == InitRegistry /\ [][NextRegistry]_vars

\* ------------------------------------------------------------ the claims
\* The place of key in the sequence order (0 if it is not in it).
Pos(order, key) ==
    IF \E i \in DOMAIN order : order[i] = key
    THEN CHOOSE i \in DOMAIN order : order[i] = key
    ELSE 0

\* The last step was an insert of a new item that found the cache at capacity.
InsertAtCapacity ==
    /\ last.op \in {"Add", "ValueLoaded"}
    /\ last.full
    /\ capacity >= 1

\* v is a key with the least access counter of the resident keys and, of those
\* with that counter, the one touched the longest ago.
LeastFrequentlyUsed(v) ==
    /\ v \in DOMAIN items
    /\ \A k \in DOMAIN items :
          /\ items[v].accessCount <= items[k].accessCount
          /\ items[k].accessCount = items[v].accessCount
                => Pos(accessedOn, k) <= Pos(accessedOn, v)

\* C1: an insert that finds the cache at capacity evicts exactly one resident
\* key, the one with the least access counter and, among those tied at it, the
\* least recently touched one; after any sequence of Add, Value and Delete.
C1_EvictsLeastFrequentlyUsed ==
    [][InsertAtCapacity' =>
          \E v \in DOMAIN items :
             /\ LeastFrequentlyUsed(v)
             /\ DOMAIN items' = ((DOMAIN items) \ {v}) \cup {last'.key}]_vars

\* C2: with a capacity of at least 1, Count() <= Capacity() after every
\* operation.
C2_CountWithinCapacity ==
    capacity >= 1 => Count(Cache) <= Capacity(Cache)

\* A state C2 is about: an insert found the cache full, and it is full after it.
C2_Witness == InsertAtCapacity /\ size = capacity

\* The items, the lists, size and minFrequency are left as they were.
Untouched ==
    UNCHANGED <<items, keyToListElement, frequencies, size, minFrequency>>

\* C3: Value of an absent key without a loader fails with ErrKeyNotFound, with
\* a loader that returns nil with ErrKeyNotFoundOrLoadable, Delete of an absent
\* key with ErrKeyNotFound; each leaves the items, the lists, size and
\* minFrequency as they were and invokes no callback.
C3_AbsentKeyFails ==
    [][/\ (last'.op = "Value" /\ last'.key \notin DOMAIN items /\ ~loadData)
            => /\ last'.err = "ErrKeyNotFound"
               /\ last'.ret = NilItem
               /\ Untouched /\ calls' = <<>>
       /\ (last'.op = "Value" /\ last'.key \notin DOMAIN items /\ loadData)
            => /\ last'.err = "loading"
               /\ Untouched /\ calls' = <<>>
       /\ (last'.op = "ValueLoaded" /\ last'.loaded = NilItem)
            => /\ last'.err = "ErrKeyNotFoundOrLoadable"
               /\ last'.ret = NilItem
               /\ Untouched /\ calls' = <<>>
       /\ (last'.op = "Delete" /\ last'.key \notin DOMAIN items)
            => /\ last'.err = "ErrKeyNotFound"
               /\ last'.ret = NilItem
               /\ Untouched /\ calls' = <<>>]_vars

\* A state C3 is about: the loader returned nil to Value, with items in the
\* cache and callbacks in both queues.
C3_Witness ==
    /\ last.op = "ValueLoaded"
    /\ last.err = "ErrKeyNotFoundOrLoadable"
    /\ items # <<>>
    /\ addedItem # <<>>
    /\ aboutToDeleteItem # <<>>

\* The other two cases of C3, reached as well.
C3_ValueCase ==
    /\ last.op = "Value" /\ last.err = "ErrKeyNotFound"
    /\ items # <<>> /\ addedItem # <<>> /\ aboutToDeleteItem # <<>>

C3_DeleteCase ==
    /\ last.op = "Delete" /\ last.err = "ErrKeyNotFound"
    /\ items # <<>> /\ addedItem # <<>> /\ aboutToDeleteItem # <<>>

\* key is resident as a new item: in the key map with the item, its element at
\* the front of the frequency-1 list, minFrequency 1.
FreshlyInserted(key, item) ==
    /\ Exists(Cache, key)
    /\ items[key] = item
    /\ 1 \in DOMAIN frequencies
    /\ Len(frequencies[1]) > 0
    /\ frequencies[1][1] = Element(key)
    /\ minFrequency = 1

LoadedIsFresh == FreshlyInserted(last.key, last.loaded)

\* C4: Value(k) of an absent key whose loader returns an item returns it with
\* no error and leaves k as a new item at the front of the frequency-1 list,
\* minFrequency 1; if the cache was at capacity, exactly one other key was
\* evicted first, and Count() is within Capacity().
C4_LoadedItemInserted ==
    [][(/\ last'.op = "ValueLoaded"
        /\ last'.loaded # NilItem
        /\ last'.key \notin DOMAIN items
        /\ capacity >= 1)
          => /\ last'.err = "nil"
             /\ last'.ret = last'.loaded
             /\ LoadedIsFresh'
             /\ size' <= capacity'
             /\ IF last'.full
                THEN \E v \in DOMAIN items :
                        DOMAIN items' = ((DOMAIN items) \ {v}) \cup {last'.key}
                ELSE DOMAIN items' = (DOMAIN items) \cup {last'.key}]_vars

\* key has no element in any list.
InNoList(freqs, key) ==
    \A f \in DOMAIN freqs : \A i \in DOMAIN freqs[f] : freqs[f][i].key # key

\* The keys of the list l, front first.
ListKeys(l) == [i \in DOMAIN l |-> l[i].key]

\* C5: Delete(k) of a resident key returns its item; afterwards k is not in the
\* key map, not in the position map and in no list, Count() is one less, and
\* every other key keeps its item, and the lists their other elements in order.
C5_DeleteRemoves ==
    [][(last'.op = "Delete" /\ last'.key \in DOMAIN items /\ capacity >= 1)
          => /\ last'.err = "nil"
             /\ last'.ret = items[last'.key]
             /\ last'.key \notin DOMAIN items'
             /\ size' = size - 1
             /\ last'.key \notin DOMAIN keyToListElement'
             /\ InNoList(frequencies', last'.key)
             /\ \A k \in (DOMAIN items) \ {last'.key} :
                   k \in DOMAIN items' /\ items'[k] = items[k]
             /\ \A f \in DOMAIN frequencies :
                   /\ f \in DOMAIN frequencies'
                   /\ SelectSeq(ListKeys(frequencies'[f]), LAMBDA k : k # last'.key)
                        = SelectSeq(ListKeys(frequencies[f]), LAMBDA k : k # last'.key)]_vars

\* The last step touched key k: a Value hit or an Add on the resident key.
TouchOf(k) == last.op \in {"Value", "Add"} /\ last.key = k /\ last.err = "nil"

\* The last step was the insert of what the loader returned for key k.
LoadedOver(k) == last.op = "ValueLoaded" /\ last.key = k /\ last.loaded # NilItem

\* C6 as claimed: a touch of a resident key adds exactly 1 to its access
\* counter, and no operation makes the counter of a key less while the key
\* stays resident.
C6_CounterNeverDecreases ==
    [][\A k \in (DOMAIN items) \cap (DOMAIN items') :
          /\ TouchOf(k)' => items'[k].accessCount = items[k].accessCount + 1
          /\ items'[k].accessCount >= items[k].accessCount]_vars

\* C6 as amended: a touch of a resident key adds exactly 1 to its access
\* counter, and no operation makes the counter of a resident key less, but for
\* the insert by Value of the item its loader returned for a key that became
\* resident while the loader ran: the loaded item takes the place of the
\* key's item, with its own counter.
C6_CounterNeverDecreasesButLoaded ==
    [][\A k \in (DOMAIN items) \cap (DOMAIN items') :
          /\ TouchOf(k)' => items'[k].accessCount = items[k].accessCount + 1
          /\ LoadedOver(k)' => items'[k] = last'.loaded
          /\ ~LoadedOver(k)' => items'[k].accessCount >= items[k].accessCount]_vars

\* A state C6 is about: a key was touched for the second time.
C6_Witness ==
    /\ last.op \in {"Value", "Add"}
    /\ last.key \in DOMAIN items
    /\ items[last.key].accessCount = 2
    /\ last.ret = items[last.key]

\* The calls of the last operation of the callbacks of one kind for key k.
CallsFor(kind, k) == SelectSeq(calls, LAMBDA x : x.kind = kind /\ x.key = k)

CallsOf(kind) == SelectSeq(calls, LAMBDA x : x.kind = kind)

\* C7: after Flush, Count() is 0, no key exists, the three maps are empty and
\* minFrequency is 0; every item that was resident got exactly one call of
\* each about-to-delete callback.
C7_FlushCompletes ==
    [][last'.op = "Flush"
          => /\ size' = 0
             /\ items' = <<>>
             /\ keyToListElement' = <<>>
             /\ frequencies' = <<>>
             /\ minFrequency' = 0
             /\ Len(calls') = Cardinality(DOMAIN items) * Len(aboutToDeleteItem)
             /\ \A k \in DOMAIN items : \A f \in DOMAIN aboutToDeleteItem :
                   Cardinality({i \in DOMAIN calls' :
                                   /\ calls'[i].kind = "aboutToDelete"
                                   /\ calls'[i].cb = aboutToDeleteItem[f]
                                   /\ calls'[i].item = items[k]}) = 1]_vars

\* A state C7 is about: Flush has called two callbacks for each of two items.
C7_Witness ==
    /\ last.op = "Flush"
    /\ Len(calls) = 4
    /\ aboutToDeleteItem = <<1, 2>>
    /\ size = 0

\* C8: wherever an item is removed (eviction, Delete, Flush), each
\* about-to-delete callback is called in registration order, once for the
\* removed item, with the item of a key that is still resident at the call.
C8_DeleteCallbacksSeeItem ==
    [][/\ \A i \in DOMAIN calls' :
             calls'[i].kind = "aboutToDelete"
                => /\ calls'[i].item # NilItem
                   /\ calls'[i].exists
                   /\ calls'[i].key \in DOMAIN items
                   /\ calls'[i].item.key = calls'[i].key
       /\ \A k \in (DOMAIN items) \ (DOMAIN items') :
             [i \in DOMAIN CallsFor("aboutToDelete", k)' |->
                 CallsFor("aboutToDelete", k)'[i].cb] = aboutToDeleteItem]_vars

\* C9: every insert of a new key, by Add and by Value with its loader, calls
\* each added-item callback once with the new item, in registration order,
\* the key being in the key map and at the front of the frequency-1 list.
C9_AddedCallbacksOnInsert ==
    [][(/\ last'.op \in {"Add", "ValueLoaded"}
        /\ last'.err = "nil"
        /\ capacity >= 1
        /\ last'.key \notin DOMAIN items)
          => /\ [i \in DOMAIN CallsOf("added")' |-> CallsOf("added")'[i].cb] = addedItem
             /\ \A i \in DOMAIN CallsOf("added")' :
                   /\ CallsOf("added")'[i].item = last'.ret
                   /\ CallsOf("added")'[i].exists
                   /\ CallsOf("added")'[i].listed]_vars

\* The place of the element the position map holds for key in its list.
PlaceInList(key) ==
    LET l == frequencies[keyToListElement[key]]
    IN  CHOOSE i \in DOMAIN l : l[i] = Element(key)

\* C10: MostAccessed(n) returns exactly min(n, Count()) distinct resident
\* items, by descending access counter and, within one counter, in the order
\* of the list, front first; no resident item with a higher counter than a
\* returned one is left out.
C10_MostAccessedOrdered ==
    last.op = "MostAccessed" =>
       LET l == last.list
       IN  /\ Len(l) = Min(last.n, Count(Cache))
           /\ \A i \in DOMAIN l : l[i].key \in DOMAIN items /\ items[l[i].key] = l[i]
           /\ \A i, j \in DOMAIN l : i # j => l[i].key # l[j].key
           /\ \A i, j \in DOMAIN l : i < j =>
                 \/ l[i].accessCount > l[j].accessCount
                 \/ /\ l[i].accessCount = l[j].accessCount
                    /\ PlaceInList(l[i].key) < PlaceInList(l[j].key)
           /\ \A k \in DOMAIN items :
                 (\A i \in DOMAIN l : l[i].key # k)
                    => \A i \in DOMAIN l : items[k].accessCount <= l[i].accessCount

\* The last step was the insert of a new item, by Add or by Value with its loader.
InsertOfNew == last.op \in {"Add", "ValueLoaded"} /\ last.err = "nil"

\* C11: in a cache made with capacity 0, Count() is 0 after any insert: the
\* cache holds nothing.
C11_ZeroCapacityHoldsNothing ==
    (capacity = 0 /\ InsertOfNew) => (Count(Cache) = 0 /\ items = <<>>)

\* The number of elements of all the lists.
ListLengths == Elems(frequencies, DOMAIN frequencies)

\* C12: in every state reached by Add, Value, Delete and Flush, size is the
\* number of keys of the key map, the number of keys of the position map and
\* the sum of the lengths of the lists.
C12_SizeIsCardinality ==
    /\ size = Cardinality(DOMAIN items)
    /\ size = Cardinality(DOMAIN keyToListElement)
    /\ size = ListLengths

\* The places key has in the lists: the pairs of a frequency and an index.
Places(key) ==
    {p \in (DOMAIN frequencies) \X (1..MaxElems) :
        /\ p[2] \in DOMAIN frequencies[p[1]]
        /\ frequencies[p[1]][p[2]].key = key}

\* C13: every resident key is in exactly one list, once, the list of its
\* access counter; a key that is not resident is in no list.
C13_OneBucketPerKey ==
    \A k \in Keys :
       IF k \in DOMAIN items
       THEN /\ Cardinality(Places(k)) = 1
            /\ \A p \in Places(k) : p[1] = AccessCount(items[k])
       ELSE Places(k) = {}

\* The frequencies whose list is not empty.
NonEmpty == {f \in DOMAIN frequencies : Len(frequencies[f]) > 0}

\* C14: after every operation minFrequency is the least frequency whose list
\* is not empty, and 0 when the cache holds no item.
C14_MinFrequencyIsLeast ==
    IF items = <<>>
    THEN minFrequency = 0
    ELSE /\ minFrequency \in NonEmpty
         /\ \A f \in NonEmpty : minFrequency <= f

\* The number of elements of key in the list l.
CountIn(l, key) == Len(SelectSeq(l, LAMBDA e : e.key = key))

\* C15: Add of a resident key is an update: it returns the key's item with
\* the data and the lifeSpan given and the access counter one higher, moves
\* the key to the front of the list of the next frequency, leaves Count() and
\* the resident keys and their items as they were, evicts nothing, also at
\* capacity, and calls no added-item callback.
C15_AddOfResidentUpdates ==
    [][(last'.op = "Add" /\ last'.key \in DOMAIN items)
          => LET k == last'.key
                 from == keyToListElement[k]
             IN  /\ last'.err = "nil"
                 /\ last'.ret = [items[k] EXCEPT !.data = last'.p.data,
                                                 !.lifeSpan = last'.p.lifeSpan,
                                                 !.accessCount = @ + 1]
                 /\ items' = [items EXCEPT ![k] = last'.ret]
                 /\ keyToListElement' = [keyToListElement EXCEPT ![k] = from + 1]
                 /\ frequencies'[from + 1][1] = Element(k)
                 /\ CountIn(frequencies'[from], k) = CountIn(frequencies[from], k) - 1
                 /\ size' = size
                 /\ last'.victim = NoKey
                 /\ calls' = <<>>]_vars

\* A state C15 is about: at capacity, with an added-item callback, Add has
\* given a resident key new data.
C15_Witness ==
    /\ last.op = "Add"
    /\ last.key \in DOMAIN items
    /\ last.ret = items[last.key]
    /\ last.ret.accessCount >= 1
    /\ last.ret.data = "d2"
    /\ size = capacity
    /\ addedItem # <<>>

\* The last step was the insert by Value of what its loader returned.
LoadedInsert == last.op = "ValueLoaded" /\ last.loaded # NilItem

\* The number of elements of key in all the lists.
RECURSIVE CountAll(_, _, _)
CountAll(freqs, fs, key) ==
    IF fs = {} THEN 0
    ELSE LET f == CHOOSE x \in fs : TRUE
         IN  CountIn(freqs[f], key) + CountAll(freqs, fs \ {f}, key)

Holds(t) == t \in RWMutex.writer \cup RWMutex.readers

\* The thread t can take its next step.
CanStep(t) ==
    \/ ENABLED Body(t)
    \/ ENABLED InsertLoaded(t)
    \/ ENABLED Leave(t)
    \/ ENABLED LeaveCount(t)
    \/ ENABLED Relock(t, NilItem)

\* C17: a thread whose Value called the loader does not hold the lock while
\* the loader runs, so that the lock is free for the operations of others; a
\* thread holds the lock exactly from its Lock to its return, releases only
\* the lock it holds, and holds none after any exit of any operation; no
\* state is a deadlock: who holds the lock can step, and when nobody holds
\* it, who waits for it after the loader can take it.
C17_LockReleased ==
    /\ \A t \in Threads :
          /\ pc[t].at # "fatal"
          /\ pc[t].at \in {"idle", "loader"} => ~Holds(t)
          /\ pc[t].at \in {"locked", "loaded", "return"} => RWMutex.writer = {t}
          /\ pc[t].at = "rlocked" => t \in RWMutex.readers
          /\ Holds(t) => CanStep(t)
          /\ (pc[t].at = "loader" /\ RWMutex = Unlocked) => CanStep(t)
    /\ (\A t \in Threads : pc[t].at \in {"idle", "loader"}) => RWMutex = Unlocked

\* A state C17 is about: while the loader of one thread's Value(k) runs,
\* another thread's Add(k) has run from its Lock to its return.
C17_Witness ==
    \E t \in Threads :
       /\ pc[t].at = "loader"
       /\ \A u \in Threads \ {t} : pc[u] = Idle
       /\ last.op = "Add"
       /\ last.key = pc[t].key
       /\ pc[t].key \in DOMAIN items
       /\ RWMutex = Unlocked

\* The caches NewLFUCache made for name.
ConstructedFor(name) == {i \in DOMAIN constructed : constructed[i].name = name}

\* C18: for any interleaving of calls of LFUCache(name, capacity), the cache of
\* a name is made exactly once and every call returns it; a call with
\* another capacity returns the cache with the capacity it was made with.
C18_RegistryGetOrCreate ==
    /\ \A name \in Names : Cardinality(ConstructedFor(name)) <= 1
    /\ \A name \in DOMAIN lfuCaches :
          \E i \in ConstructedFor(name) : lfuCaches[name] = constructed[i]
    /\ \A r \in returned :
          /\ Cardinality(ConstructedFor(r.name)) = 1
          /\ r.name \in DOMAIN lfuCaches
          /\ r.c = lfuCaches[r.name]
    /\ \A r1, r2 \in returned : r1.name = r2.name => r1.c = r2.c

\* A state C18 is about: a call that did not find the name under the read
\* lock finds under the write lock the cache another call has made meanwhile,
\* with another capacity than the one it asks for, and an earlier call has
\* returned that cache.
C18_Witness ==
    \E t \in Threads :
       /\ calling[t].at = "unlock"
       /\ calling[t].ok
       /\ calling[t].c.capacity # calling[t].capacity
       /\ \E r \in returned : r.c = calling[t].c

\* The number of entries of the frequency map, where MostAccessed starts.
Levels == Cardinality(DOMAIN frequencies)

\* C19: the frequencies of the frequency map are 1..k for some k >= 0, so the
\* number of its entries is not less than the frequency of the list of any
\* resident key, nor than the key's access counter.
C19_FrequenciesContiguous ==
    /\ DOMAIN frequencies = 1..Levels
    /\ \A k \in DOMAIN items :
          /\ keyToListElement[k] <= Levels
          /\ AccessCount(items[k]) <= Levels

\* A state C19 is about: three lists, the two lower ones emptied and still in
\* the map, a resident key in the highest.
C19_Witness ==
    /\ Levels = 3
    /\ frequencies[1] = <<>>
    /\ frequencies[2] = <<>>
    /\ \E k \in DOMAIN items : keyToListElement[k] = 3

\* C20: Add(k) right after Delete(k) leaves k as a first insert does: resident,
\* with one element in the lists, at the front of the frequency-1 list; and
\* the key an eviction takes from a list is a resident key, never an element
\* left of a deleted one.
C20_DeleteThenAddIsFresh ==
    [][/\ (/\ last.op = "Delete" /\ last.err = "nil"
           /\ last'.op = "Add" /\ last'.key = last.key
           /\ capacity >= 1)
             => /\ last'.key \in DOMAIN items'
                /\ keyToListElement'[last'.key] = 1
                /\ frequencies'[1][1] = Element(last'.key)
                /\ CountAll(frequencies', DOMAIN frequencies', last'.key) = 1
       /\ (last'.op = "Add" /\ last'.victim # NoKey)
             => /\ last'.victim \in DOMAIN items
                /\ size' = size]_vars

\* Count() is not negative.
SizeNotNegative == Count(Cache) >= 0

\* C21: Count() is never negative, and size is counted down only by an
\* operation that takes a key out of the key map: the key an eviction takes is
\* resident, and a step that leaves size smaller leaves the key map smaller.
C21_CountNeverNegative ==
    [][/\ SizeNotNegative'
       /\ last'.victim # NoKey => last'.victim \in DOMAIN items
       /\ size' < size => \E k \in DOMAIN items : k \notin DOMAIN items']_vars

====
